---- MODULE Spec2Model ----
(***************************************************************************)
(* Rollout / repair control logic of neckbeard (actions/up.py,             *)
(* actions/repair.py): the EC2 priority scheduler, the seamless rotation   *)
(* context manager with its convergence loops, the seed verification gate  *)
(* and the up action that drives them.                                     *)
(*                                                                         *)
(* Four specifications share the variables:                                *)
(*   SpecOrder     _order_ec2_deployers_by_priority on every small batch   *)
(*   SpecSeamless  one use of `with seamless_modification(...)` with every *)
(*                 combination of its arguments                            *)
(*   Spec          the up action                                           *)
(*   SpecRepair    the repair action                                       *)
(***************************************************************************)
EXTENDS Integers, Sequences, FiniteSets, TLC

\* ------------------------------------------------------------------ bounds
\* longest deployer batch handed to the scheduler on its own
MaxBatch == 3
\* most nodes configured in the environment the up action deploys
MaxNodes == 1
\* most unrecognised answers an operator types into one run's prompts
MaxBadAnswers == 1
\* most times an operator answers Retry in one convergence loop
MaxManualRetries == 1
\* most nodes one repair_active_generation call activates
MaxActivated == 2

\* --------------------------------------------------------------- constants
\* up.py:353  auto_retries = 10
auto_retries == 10

\* `node` of seamless_modification when no node is passed (Python None)
None == 0

VARIABLES
    pc,                 \* position of the single thread of control
    entry,              \* which entry point started the run
    nodes,              \* node id -> [exists, is_operational, is_healthy]
    interactive,        \* env.get('interactive', True)
    \* -- up
    generation,         \* argument of up
    debug,              \* Python's __debug__: assert statements are executed
    conf_ec2,           \* node names under environment_config['ec2']
    conf_rds,           \* node names under environment_config['rds']
    rep,                \* the repair action's arguments, environment and record
    seed_verification,  \* node name -> seed_verification of its deployer
    rds_deployers,
    ec2_deployers,
    ordered,            \* value returned by _order_ec2_deployers_by_priority
    phase,              \* which provisioning loop runs: "rds" or "ec2"
    idx,                \* position of the running for loop in its list
    up_make_operational,\* local make_operational of up ("unbound" or TRUE)
    missing,            \* deployers whose get_node() was None when provisioned
    confirmed,          \* deployers whose seed prompt was answered 'Yes'
    created,            \* deployers on which ensure_node_created was invoked
    ran,                \* deployers on which run was invoked
    seed_prompts,       \* seed verification prompts shown
    \* -- seamless_modification
    node,               \* argument node (None or a node id)
    force_seamless,
    make_operational_if_not_already,
    make_operational,   \* local make_operational
    count,              \* local count of the single-node loop
    user_opt,           \* last answer read by an Ignore/Retry/Fail prompt
    continue_anyway,    \* answer read by the redundancy prompt
    pending,            \* the load balancer has yet to pick the node up
    obs,                \* observations of one seamless_modification call
    bad_answers,        \* unrecognised answers typed so far in the run
    result,             \* "running", "returned", "exit1" or "raised"
    via                 \* why the run, or the seamless_modification call, ended

envVars == <<nodes, interactive>>
confVars == <<generation, debug, conf_ec2, conf_rds, rep>>
depVars == <<seed_verification, rds_deployers, ec2_deployers, ordered>>
loopVars == <<phase, idx, up_make_operational>>
gateVars == <<missing, confirmed, created, seed_prompts>>
upVars == <<confVars, depVars, loopVars, gateVars, ran>>
argVars == <<node, force_seamless, make_operational_if_not_already>>
smVars == <<make_operational, count, user_opt, continue_anyway, pending>>
endVars == <<result, via>>
vars == <<pc, entry, envVars, upVars, argVars, smVars, obs, bad_answers, endVars>>

\* ------------------------------------------------------------------ nodes
NodeState(op, healthy) == [exists |-> TRUE, is_operational |-> op, is_healthy |-> healthy]

\* a configured node that has not been created: deployer.get_node() is None
Absent == [exists |-> FALSE, is_operational |-> FALSE, is_healthy |-> FALSE]

ExistingNodes == {NodeState(op, h) : op \in BOOLEAN, h \in BOOLEAN}

Ids(n) == 1..n

\* the sequence <<1, ..., n>>
Iota(n) == [i \in 1..n |-> i]

Range(s) == {s[i] : i \in DOMAIN s}

\* --------------------------------------------------------------- scheduler
EmptyBuckets == [io_unhealthy |-> <<>>, io_healthy |-> <<>>, o_unhealthy |-> <<>>, o_healthy |-> <<>>]

\* up.py:279-288: the list a deployer's node selects
Bucket(n) ==
    IF n.is_operational
    THEN (IF n.is_healthy THEN "o_healthy" ELSE "o_unhealthy")
    ELSE (IF n.is_healthy THEN "io_healthy" ELSE "io_unhealthy")

BucketAppendFront(list, d) == <<d>> \o list

\* list.append(ec2_deployer)
BucketAppend(list, d) == Append(list, d)

\* up.py:276-288: the for loop over ec2_deployers
RECURSIVE Classify(_, _, _)
Classify(deps, ns, acc) ==
    IF deps = <<>> THEN acc
    ELSE Classify(Tail(deps), ns,
                  [acc EXCEPT ![Bucket(ns[Head(deps)])] = BucketAppend(@, Head(deps))])

CombineHealthyFirst(b) == b.o_healthy \o b.io_healthy \o b.io_unhealthy \o b.o_unhealthy

\* up.py:290: return io_healthy + io_unhealthy + o_unhealthy + o_healthy
Combine(b) == b.io_healthy \o b.io_unhealthy \o b.o_unhealthy \o b.o_healthy

order_ec2_deployers_by_priority(deps, ns) == Combine(Classify(deps, ns, EmptyBuckets))

\* ------------------------------------------------------ values before use
\* the repair action at its start:
\*   force              the argument force
\*   env_ready          env holds _deployment_name, _deployment_confs, _active_gen
\*   active_gen         env._active_gen is true
\*   verified           deployment.verify_deployment_state() returned
\*   repair_calls       calls of deployment.repair_active_generation
\*   force_operational  the force_operational passed to it
\*   activated          the activated nodes it returned
\*   fully_operational  the active generation is fully operational after it
\*   operational_checks calls of deployment.active_is_fully_operational
\*   report             what the action logs at its end
RepAtStart(force, ready, active) ==
    [force |-> force, env_ready |-> ready, active_gen |-> active,
     verified |-> FALSE, repair_calls |-> 0, force_operational |-> "unset",
     activated |-> <<>>, fully_operational |-> FALSE, operational_checks |-> 0,
     report |-> [msg |-> "none", nodes |-> 0]]

\* the up action's variables in a run that does not go through up
UpUnused ==
    /\ generation = "active" /\ debug = TRUE
    /\ conf_ec2 = <<>> /\ conf_rds = <<>>
    /\ rep = RepAtStart("n", TRUE, TRUE)
    /\ seed_verification = <<>> /\ rds_deployers = <<>>
    /\ phase = "none" /\ idx = 0 /\ up_make_operational = "unbound"
    /\ missing = {} /\ confirmed = {} /\ created = {} /\ ran = {} /\ seed_prompts = 0

\* what is observed of a seamless_modification call, at its entry:
\*   was_operational  the node existed and was operational at entry
\*   redundancy       "unqueried", or has_required_redundancy's answer
\*   inop_calls       calls of node.make_temporarily_inoperative
\*   make_op_calls    calls of node.make_operational
\*   last_raised      the latest node.make_operational call raised
\*   failed_attempts  attempts after which the node was still not operational
\*   esc_prompts      Ignore/Retry/Fail prompts shown
\*   red_prompts      redundancy override prompts shown
\*   manual_retries   Retry answers
\*   repair_calls     calls of deployment.repair_active_generation
\*   yielded          control was yielded to the with-body
ObsAtEntry(op) ==
    [was_operational |-> op, redundancy |-> "unqueried", inop_calls |-> 0,
     make_op_calls |-> 0, last_raised |-> FALSE, failed_attempts |-> 0,
     esc_prompts |-> 0, red_prompts |-> 0, manual_retries |-> 0,
     repair_calls |-> 0, yielded |-> FALSE]

\* seamless_modification's variables before it is called
FrameUnused ==
    /\ node = None /\ force_seamless = TRUE /\ make_operational_if_not_already = FALSE
    /\ make_operational = FALSE /\ count = 0 /\ user_opt = "None"
    /\ continue_anyway = "None" /\ pending = FALSE
    /\ obs = ObsAtEntry(FALSE)

\* ------------------------------------------------- SpecOrder: the scheduler
\* every batch of at most MaxBatch deployers whose nodes exist (node.is_operational
\* is read on every one, up.py:278-279)
InitOrder ==
    /\ pc = "order_call" /\ entry = "order"
    /\ \E n \in 0..MaxBatch :
          /\ nodes \in [Ids(n) -> ExistingNodes]
          /\ ec2_deployers = Iota(n)
    /\ ordered = <<>>
    /\ interactive = TRUE /\ bad_answers = 0
    /\ result = "running" /\ via = "none"
    /\ UpUnused /\ FrameUnused

\* up.py:261-290
Order ==
    /\ pc = "order_call"
    /\ ordered' = order_ec2_deployers_by_priority(ec2_deployers, nodes)
    /\ pc' = "order_done"
    /\ result' = "returned"
    /\ UNCHANGED <<entry, envVars, confVars, seed_verification, rds_deployers,
                   ec2_deployers, loopVars, gateVars, ran, argVars, smVars, obs,
                   bad_answers, via>>

NextOrder == Order

SpecOrder == InitOrder /\ [][NextOrder]_vars

\* ---------------------------------------------------- claims on the scheduler
\* number of places of s that hold d
Occurrences(s, d) == Cardinality({i \in DOMAIN s : s[i] = d})

SameClass(a, b) ==
    /\ nodes[a].is_operational = nodes[b].is_operational
    /\ nodes[a].is_healthy = nodes[b].is_healthy

\* place of the first d in s
Pos(s, d) == CHOOSE k \in DOMAIN s : s[k] = d /\ \A m \in DOMAIN s : s[m] = d => k <= m

\* C1: the scheduler returns a permutation of its input (every deployer as often
\* in the output as in the input, same length), and two deployers of the same
\* (is_operational, is_healthy) class keep their input order.
C1_PermutationStable ==
    pc = "order_done" =>
        /\ Len(ordered) = Len(ec2_deployers)
        /\ \A d \in Range(ec2_deployers) \cup Range(ordered) :
              Occurrences(ordered, d) = Occurrences(ec2_deployers, d)
        /\ \A i, j \in DOMAIN ec2_deployers :
              (i < j /\ SameClass(ec2_deployers[i], ec2_deployers[j]))
                  => Pos(ordered, ec2_deployers[i]) < Pos(ordered, ec2_deployers[j])

\* a batch of three that the scheduler reorders and that has two of one class
C1_Witness ==
    /\ pc = "order_done"
    /\ Len(ec2_deployers) = 3
    /\ ordered # ec2_deployers
    /\ \E i, j \in DOMAIN ec2_deployers : i < j /\ SameClass(ec2_deployers[i], ec2_deployers[j])

\* rank of a node's class in the docstring's list (up.py:265-269)
DocRank(n) ==
    IF n.is_operational
    THEN (IF n.is_healthy THEN 4 ELSE 3)
    ELSE (IF n.is_healthy THEN 2 ELSE 1)

\* C2: the output lists inoperative+unhealthy, then inoperative+healthy, then
\* operational+unhealthy, then operational+healthy deployers.
C2_DocstringOrder ==
    pc = "order_done" =>
        \A i, j \in DOMAIN ordered :
            i < j => DocRank(nodes[ordered[i]]) <= DocRank(nodes[ordered[j]])

\* C3: no deployer of an operational+healthy node comes before a deployer of an
\* inoperative+unhealthy node in the output.
C3_HealthyNeverBeforeWorst ==
    pc = "order_done" =>
        \A i, j \in DOMAIN ordered :
            (/\ nodes[ordered[i]].is_operational /\ nodes[ordered[i]].is_healthy
             /\ ~nodes[ordered[j]].is_operational /\ ~nodes[ordered[j]].is_healthy)
                => j < i

\* an input that lists an operational+healthy node before an inoperative+unhealthy one
C3_Witness ==
    /\ pc = "order_done"
    /\ \E i, j \in DOMAIN ec2_deployers :
          /\ i < j
          /\ DocRank(nodes[ec2_deployers[i]]) = 4
          /\ DocRank(nodes[ec2_deployers[j]]) = 1

\* ============================================ seamless_modification (up.py:293-426)
\* answers an operator may type at the redundancy prompt; only 'Y' continues
RedundancyAnswers == {"Y", "y", "N"}

\* up.py:349, 403: opts = ['I', 'R', 'F']
opts == {"I", "R", "F"}

\* answers an operator may type at an Ignore/Retry/Fail prompt
EscalationAnswers == opts \cup {"r"}

\* number of conversion specifiers of the two escalation prompt strings
\* up.py:350-352: "Node %s not made operational. Ignore/Retry/Fail (I/R/F)?"
NodePromptSpecifiers == 1
\* up.py:404-405: "Active generation not fully operational. Ignore/Retry/Fail (I/R/F)?"
GenerationPromptSpecifiers == 0

\* `prompt_str % node` with a right operand that is no tuple and no mapping: one
\* argument, and Python raises TypeError unless the string converts exactly one
FormatSucceeds(specifiers) == specifiers = 1

\* the process ends through exit(1)
Exit(reason) == pc' = "exited" /\ result' = "exit1" /\ via' = reason

\* an exception leaves seamless_modification and nothing catches it
Raise(reason) == pc' = "raised" /\ result' = "raised" /\ via' = reason

\* the generator returns after the yield: the with statement completes
Return(reason) == pc' = "sm_returned" /\ result' = result /\ via' = reason

NodeIsOperational == node # None /\ nodes[node].is_operational

SMEnterNoCheckUnlessOperational ==
    /\ pc = "sm_enter"
    /\ ~(NodeIsOperational /\ force_seamless)
    /\ make_operational' = make_operational_if_not_already
    /\ pc' = "sm_rotate"
    /\ UNCHANGED <<entry, envVars, upVars, argVars, count, user_opt, continue_anyway,
                   pending, obs, bad_answers, endVars>>

\* up.py:310-313 with `node and force_seamless` false: no redundancy check
SMEnterNoCheck ==
    /\ pc = "sm_enter"
    /\ ~(node # None /\ force_seamless)
    /\ make_operational' = make_operational_if_not_already
    /\ pc' = "sm_rotate"
    /\ UNCHANGED <<entry, envVars, upVars, argVars, count, user_opt, continue_anyway,
                   pending, obs, bad_answers, endVars>>

\* up.py:310-313: deployment.has_required_redundancy(node) answers true
SMRedundancyMet ==
    /\ pc = "sm_enter"
    /\ node # None /\ force_seamless
    /\ make_operational' = make_operational_if_not_already
    /\ obs' = [obs EXCEPT !.redundancy = "met"]
    /\ pc' = "sm_rotate"
    /\ UNCHANGED <<entry, envVars, upVars, argVars, count, user_opt, continue_anyway,
                   pending, bad_answers, endVars>>

\* up.py:313-318: redundancy is not met and the run is interactive: prompt
SMRedundancyAsk ==
    /\ pc = "sm_enter"
    /\ node # None /\ force_seamless
    /\ interactive
    /\ make_operational' = make_operational_if_not_already
    /\ obs' = [obs EXCEPT !.redundancy = "unmet"]
    /\ pc' = "sm_red_prompt"
    /\ UNCHANGED <<entry, envVars, upVars, argVars, count, user_opt, continue_anyway,
                   pending, bad_answers, endVars>>

\* up.py:313-314, 325-332: redundancy is not met and the run is not interactive
SMRedundancyAbort ==
    /\ pc = "sm_enter"
    /\ node # None /\ force_seamless
    /\ ~interactive
    /\ make_operational' = make_operational_if_not_already
    /\ obs' = [obs EXCEPT !.redundancy = "unmet"]
    /\ Exit("redundancy")
    /\ UNCHANGED <<entry, envVars, upVars, argVars, count, user_opt, continue_anyway,
                   pending, bad_answers>>

ContinuesWhateverTheAnswer(answer) == TRUE

\* up.py:319: if continue_anyway != 'Y': abort

ContinuesAnyway(answer) == answer = "Y"

\* up.py:315-324: the operator answers the redundancy prompt
SMRedundancyPrompt ==
    /\ pc = "sm_red_prompt"
    /\ \E answer \in RedundancyAnswers :
          /\ continue_anyway' = answer
          /\ obs' = [obs EXCEPT !.red_prompts = @ + 1]
          /\ IF ContinuesAnyway(answer)
             THEN pc' = "sm_rotate" /\ UNCHANGED endVars
             ELSE Exit("redundancy")
    /\ UNCHANGED <<entry, envVars, upVars, argVars, make_operational, count, user_opt,
                   pending, bad_answers>>

\* node.make_temporarily_inoperative() (up.py:340) takes the node out of
\* service and returns once the node reports it is out of service
make_temporarily_inoperative(n) == [n EXCEPT !.is_operational = FALSE]

SMRotateOutForgets ==
    /\ pc = "sm_rotate"
    /\ NodeIsOperational
    /\ nodes' = [nodes EXCEPT ![node] = make_temporarily_inoperative(@)]
    /\ obs' = [obs EXCEPT !.inop_calls = @ + 1, !.yielded = TRUE]
    /\ pc' = "with_body"
    /\ UNCHANGED <<entry, interactive, upVars, argVars, smVars, bad_answers, endVars>>

SMYieldWhateverTheNode ==
    /\ pc = "sm_rotate"
    /\ obs' = [obs EXCEPT !.yielded = TRUE]
    /\ pc' = "with_body"
    /\ UNCHANGED <<entry, envVars, upVars, argVars, smVars, bad_answers, endVars>>

\* up.py:336-343: the node is operational: remember to restore it, take it out of
\* service, then yield to the with-body
SMRotateOut ==
    /\ pc = "sm_rotate"
    /\ NodeIsOperational
    /\ make_operational' = TRUE
    /\ nodes' = [nodes EXCEPT ![node] = make_temporarily_inoperative(@)]
    /\ obs' = [obs EXCEPT !.inop_calls = @ + 1, !.yielded = TRUE]
    /\ pc' = "with_body"
    /\ UNCHANGED <<entry, interactive, upVars, argVars, count, user_opt,
                   continue_anyway, pending, bad_answers, endVars>>

\* up.py:336, 343: no node, or a node that is not operational: yield at once
SMYieldAsIs ==
    /\ pc = "sm_rotate"
    /\ ~NodeIsOperational
    /\ obs' = [obs EXCEPT !.yielded = TRUE]
    /\ pc' = "with_body"
    /\ UNCHANGED <<entry, envVars, upVars, argVars, smVars, bad_answers, endVars>>

\* the deployer whose mutation the with-body applies (up.py:225, 242)
BodyDeployer == IF entry = "up" THEN {ec2_deployers[idx]} ELSE {}

\* up.py:236-242: the with-body (the mutation, deployer.run() in up) returns
WithBodyReturns ==
    /\ pc = "with_body"
    /\ ran' = ran \cup BodyDeployer
    /\ pc' = "sm_resume"
    /\ UNCHANGED <<entry, envVars, confVars, depVars, loopVars, gateVars, argVars,
                   smVars, obs, bad_answers, endVars>>

\* up.py:343: the with-body raises; the exception is thrown into the generator at
\* its yield, which stands in no try block, so it leaves the generator there
WithBodyRaises ==
    /\ pc = "with_body"
    /\ ran' = ran \cup BodyDeployer
    /\ Raise("mutation")
    /\ UNCHANGED <<entry, envVars, confVars, depVars, loopVars, gateVars, argVars,
                   smVars, obs, bad_answers>>

\* up.py:345: nothing to restore
SMResumeNoRestore ==
    /\ pc = "sm_resume"
    /\ ~make_operational
    /\ Return("no_restore")
    /\ UNCHANGED <<entry, envVars, upVars, argVars, smVars, obs, bad_answers>>

\* up.py:345-354: restore a known node
SMResumeNode ==
    /\ pc = "sm_resume"
    /\ make_operational /\ node # None
    /\ count' = 0
    /\ pc' = "sm_make_op"
    /\ UNCHANGED <<entry, envVars, upVars, argVars, make_operational, user_opt,
                   continue_anyway, pending, obs, bad_answers, endVars>>

\* up.py:345-348, 401-407: no node is known: repair the active generation
SMResumeGeneration ==
    /\ pc = "sm_resume"
    /\ make_operational /\ node = None
    /\ pc' = "gen_repair"
    /\ UNCHANGED <<entry, envVars, upVars, argVars, smVars, obs, bad_answers, endVars>>

\* what a node.make_operational() call does to the node: it is operational at
\* once ("now"), once the load balancer has picked it up ("late"), or not ("no")
MakeOperationalEffects == {"now", "late", "no"}

MakeOperationalCallPropagates(raised) ==
    /\ pc = "sm_make_op"
    /\ \E effect \in MakeOperationalEffects :
          /\ nodes' = IF effect = "now"
                      THEN [nodes EXCEPT ![node].is_operational = TRUE]
                      ELSE nodes
          /\ pending' = (effect = "late")
    /\ obs' = [obs EXCEPT !.make_op_calls = @ + 1, !.last_raised = raised]
    /\ IF raised THEN Raise("make_operational") ELSE pc' = "sm_check1" /\ UNCHANGED endVars
    /\ UNCHANGED <<entry, interactive, upVars, argVars, make_operational, count,
                   user_opt, continue_anyway, bad_answers>>

\* up.py:356-362: node.make_operational(), whose exception is caught and logged
MakeOperationalCall(raised) ==
    /\ pc = "sm_make_op"
    /\ \E effect \in MakeOperationalEffects :
          /\ nodes' = IF effect = "now"
                      THEN [nodes EXCEPT ![node].is_operational = TRUE]
                      ELSE nodes
          /\ pending' = (effect = "late")
    /\ obs' = [obs EXCEPT !.make_op_calls = @ + 1, !.last_raised = raised]
    /\ pc' = "sm_check1"
    /\ UNCHANGED <<entry, interactive, upVars, argVars, make_operational, count,
                   user_opt, continue_anyway, bad_answers, endVars>>

SMMakeOperationalReturns == MakeOperationalCall(FALSE)

SMMakeOperationalRaises == MakeOperationalCall(TRUE)

\* up.py:363-365: the node reports operational right after the attempt
SMCheck1Operational ==
    /\ pc = "sm_check1"
    /\ nodes[node].is_operational
    /\ Return("operational")
    /\ UNCHANGED <<entry, envVars, upVars, argVars, smVars, obs, bad_answers>>

\* up.py:363, 368-369: not operational: time.sleep(1), in which a pending
\* registration with the load balancer completes
SMCheck1Wait ==
    /\ pc = "sm_check1"
    /\ ~nodes[node].is_operational
    /\ nodes' = IF pending THEN [nodes EXCEPT ![node].is_operational = TRUE] ELSE nodes
    /\ pending' = FALSE
    /\ pc' = "sm_check2"
    /\ UNCHANGED <<entry, interactive, upVars, argVars, make_operational, count,
                   user_opt, continue_anyway, obs, bad_answers, endVars>>

\* up.py:372-374: operational on the second look
SMCheck2Operational ==
    /\ pc = "sm_check2"
    /\ nodes[node].is_operational
    /\ Return("operational")
    /\ UNCHANGED <<entry, envVars, upVars, argVars, smVars, obs, bad_answers>>

AutomaticRetryLeftOffByOne(c) == c < auto_retries - 1

AutomaticRetryLeftInverted(c) == c > auto_retries

\* up.py:376: if count < auto_retries
AutomaticRetryLeft(c) == c < auto_retries

\* up.py:376-379: still not operational, automatic retries left
SMCheck2Retry ==
    /\ pc = "sm_check2"
    /\ ~nodes[node].is_operational
    /\ AutomaticRetryLeft(count)
    /\ count' = count + 1
    /\ obs' = [obs EXCEPT !.failed_attempts = @ + 1]
    /\ pc' = "sm_make_op"
    /\ UNCHANGED <<entry, envVars, upVars, argVars, make_operational, user_opt,
                   continue_anyway, pending, bad_answers, endVars>>

\* up.py:376, 381-387: automatic retries used up: escalate to the operator
SMCheck2Escalate ==
    /\ pc = "sm_check2"
    /\ ~nodes[node].is_operational
    /\ ~AutomaticRetryLeft(count)
    /\ user_opt' = "None"
    /\ obs' = [obs EXCEPT !.failed_attempts = @ + 1]
    /\ pc' = "sm_prompt"
    /\ UNCHANGED <<entry, envVars, upVars, argVars, make_operational, count,
                   continue_anyway, pending, bad_answers, endVars>>

\* up.py:388-389: an answer outside opts: the prompt is shown again
SMPromptUnrecognised ==
    /\ pc = "sm_prompt"
    /\ FormatSucceeds(NodePromptSpecifiers)
    /\ bad_answers < MaxBadAnswers
    /\ \E answer \in EscalationAnswers \ opts : user_opt' = answer
    /\ obs' = [obs EXCEPT !.esc_prompts = @ + 1]
    /\ bad_answers' = bad_answers + 1
    /\ UNCHANGED <<pc, entry, envVars, upVars, argVars, make_operational, count,
                   continue_anyway, pending, endVars>>

SMPromptRetryResetsCount ==
    /\ pc = "sm_prompt"
    /\ FormatSucceeds(NodePromptSpecifiers)
    /\ obs.manual_retries < MaxManualRetries
    /\ user_opt' = "R"
    /\ count' = 0
    /\ obs' = [obs EXCEPT !.esc_prompts = @ + 1, !.manual_retries = @ + 1]
    /\ pc' = "sm_make_op"
    /\ UNCHANGED <<entry, envVars, upVars, argVars, make_operational,
                   continue_anyway, pending, bad_answers, endVars>>

\* up.py:388-391: Retry: one more turn of the while loop, count untouched
SMPromptRetry ==
    /\ pc = "sm_prompt"
    /\ FormatSucceeds(NodePromptSpecifiers)
    /\ obs.manual_retries < MaxManualRetries
    /\ user_opt' = "R"
    /\ obs' = [obs EXCEPT !.esc_prompts = @ + 1, !.manual_retries = @ + 1]
    /\ pc' = "sm_make_op"
    /\ UNCHANGED <<entry, envVars, upVars, argVars, make_operational, count,
                   continue_anyway, pending, bad_answers, endVars>>

\* up.py:388-393: Ignore: return with the node not operational
SMPromptIgnore ==
    /\ pc = "sm_prompt"
    /\ FormatSucceeds(NodePromptSpecifiers)
    /\ user_opt' = "I"
    /\ obs' = [obs EXCEPT !.esc_prompts = @ + 1]
    /\ Return("ignore")
    /\ UNCHANGED <<entry, envVars, upVars, argVars, make_operational, count,
                   continue_anyway, pending, bad_answers>>

\* up.py:388-399: Fail: exit(1)
SMPromptFail ==
    /\ pc = "sm_prompt"
    /\ FormatSucceeds(NodePromptSpecifiers)
    /\ user_opt' = "F"
    /\ obs' = [obs EXCEPT !.esc_prompts = @ + 1]
    /\ Exit("fail")
    /\ UNCHANGED <<entry, envVars, upVars, argVars, make_operational, count,
                   continue_anyway, pending, bad_answers>>

\* up.py:408-414: repair_active_generation(force_operational=make_operational,
\* wait_until_operational=False), then active_is_fully_operational() is true
GenRepairOperational ==
    /\ pc = "gen_repair"
    /\ obs' = [obs EXCEPT !.repair_calls = @ + 1]
    /\ Return("fully_operational")
    /\ UNCHANGED <<entry, envVars, upVars, argVars, smVars, bad_answers>>

\* up.py:408-416: the repair leaves the generation not fully operational
GenRepairNotOperational ==
    /\ pc = "gen_repair"
    /\ user_opt' = "None"
    /\ obs' = [obs EXCEPT !.repair_calls = @ + 1]
    /\ pc' = "gen_prompt"
    /\ UNCHANGED <<entry, envVars, upVars, argVars, make_operational, count,
                   continue_anyway, pending, bad_answers, endVars>>

\* up.py:417-426: `prompt(prompt_str % node)`: the operand is formatted before
\* prompt is called; the answer is acted on only if the formatting succeeds
GenEscalate ==
    /\ pc = "gen_prompt"
    /\ IF FormatSucceeds(GenerationPromptSpecifiers)
       THEN \E answer \in EscalationAnswers :
               /\ answer \notin opts => bad_answers < MaxBadAnswers
               /\ answer = "R" => obs.manual_retries < MaxManualRetries
               /\ user_opt' = answer
               /\ obs' = [obs EXCEPT !.esc_prompts = @ + 1,
                                     !.manual_retries = IF answer = "R" THEN @ + 1 ELSE @]
               /\ bad_answers' = IF answer \in opts THEN bad_answers ELSE bad_answers + 1
               /\ CASE answer = "R" -> pc' = "gen_repair" /\ UNCHANGED endVars
                    [] answer = "I" -> Return("ignore")
                    [] answer = "F" -> Exit("fail")
                    [] OTHER -> UNCHANGED <<pc, endVars>>
       ELSE /\ Raise("TypeError")
            /\ UNCHANGED <<user_opt, obs, bad_answers>>
    /\ UNCHANGED <<entry, envVars, upVars, argVars, make_operational, count,
                   continue_anyway, pending>>

\* the steps of seamless_modification taken when it is given a node, seamless
\* behaviour is forced and restoring is asked for, as the up action calls it
NextSeamlessNode ==
    \/ SMRedundancyMet \/ SMRedundancyAsk \/ SMRedundancyAbort \/ SMRedundancyPrompt
    \/ SMRotateOut \/ SMYieldAsIs
    \/ WithBodyReturns \/ WithBodyRaises
    \/ SMResumeNode
    \/ SMMakeOperationalReturns \/ SMMakeOperationalRaises
    \/ SMCheck1Operational \/ SMCheck1Wait
    \/ SMCheck2Operational \/ SMCheck2Retry \/ SMCheck2Escalate
    \/ SMPromptUnrecognised \/ SMPromptRetry \/ SMPromptIgnore \/ SMPromptFail

\* the steps that need another combination of arguments
NextSeamlessOther ==
    \/ SMEnterNoCheck \/ SMResumeNoRestore \/ SMResumeGeneration
    \/ GenRepairOperational \/ GenRepairNotOperational \/ GenEscalate

\* one `with seamless_modification(node, deployment, force_seamless,
\* make_operational_if_not_already)` with every combination of arguments
InitSeamless ==
    /\ pc = "sm_enter" /\ entry = "seamless"
    /\ node \in {None, 1}
    /\ nodes \in [Ids(1) -> (IF node = None THEN {Absent} ELSE ExistingNodes)]
    /\ interactive \in BOOLEAN
    /\ force_seamless \in BOOLEAN
    /\ make_operational_if_not_already \in BOOLEAN
    /\ make_operational = FALSE /\ count = 0 /\ user_opt = "None"
    /\ continue_anyway = "None" /\ pending = FALSE
    /\ obs = ObsAtEntry(NodeIsOperational)
    /\ bad_answers = 0
    /\ ec2_deployers = <<>> /\ ordered = <<>>
    /\ result = "running" /\ via = "none"
    /\ UpUnused

NextSeamless == NextSeamlessNode \/ NextSeamlessOther

SpecSeamless == InitSeamless /\ [][NextSeamless]_vars

\* ======================================================== up (up.py:47-258)
\* neckbeard.actions.utils.ACTIVE, the default of up's generation argument
ACTIVE == "active"

Generations == {ACTIVE, "pending"}

\* the sequence <<a, ..., b>>
FromTo(a, b) == [i \in 1..(b - a + 1) |-> a + i - 1]

\* an environment of at most MaxNodes configured nodes, the first k of them under
\* 'ec2' and the others under 'rds'; each exists or not, and each has the
\* verify_seed_data its conf and the seed deployment give it (up.py:164-170)
InitUp ==
    /\ pc = "up_start" /\ entry = "up"
    /\ generation \in Generations
    /\ debug \in BOOLEAN
    /\ interactive \in BOOLEAN
    /\ \E n \in 0..MaxNodes :
          /\ nodes \in [Ids(n) -> ExistingNodes \cup {Absent}]
          /\ seed_verification \in [Ids(n) -> BOOLEAN]
          /\ \E k \in 0..n : conf_ec2 = FromTo(1, k) /\ conf_rds = FromTo(k + 1, n)
    /\ rep = RepAtStart("n", TRUE, TRUE)
    /\ rds_deployers = <<>> /\ ec2_deployers = <<>> /\ ordered = <<>>
    /\ phase = "none" /\ idx = 0 /\ up_make_operational = "unbound"
    /\ missing = {} /\ confirmed = {} /\ created = {} /\ ran = {} /\ seed_prompts = 0
    /\ bad_answers = 0
    /\ result = "running" /\ via = "none"
    /\ FrameUnused

\* up.py:61-117: make_operational is bound only for the active generation; the
\* git and pagerduty hooks are off (their confs are {}); the deployment state
\* verifies
UpStart ==
    /\ pc = "up_start"
    /\ up_make_operational' = IF generation = ACTIVE THEN "True" ELSE "unbound"
    /\ pc' = "up_build"
    /\ UNCHANGED <<entry, envVars, confVars, depVars, phase, idx, gateVars, ran,
                   argVars, smVars, obs, bad_answers, endVars>>

\* up.py:117: deployment.verify_deployment_state raises
UpStateInvalid ==
    /\ pc = "up_start"
    /\ Raise("verify_deployment_state")
    /\ UNCHANGED <<entry, envVars, upVars, argVars, smVars, obs, bad_answers>>

\* up.py:144-192: dep_confs pairs the label 'rds' with the 'ec2' section and the
\* label 'ec2' with the 'rds' section, so each section's nodes get the other
\* kind's deployer and list
UpBuild ==
    /\ pc = "up_build"
    /\ rds_deployers' = conf_ec2
    /\ ec2_deployers' = conf_rds
    /\ pc' = "up_assert"
    /\ UNCHANGED <<entry, envVars, confVars, seed_verification, ordered, loopVars,
                   gateVars, ran, argVars, smVars, obs, bad_answers, endVars>>

\* up.py:195: assert False, executed
UpAssertFails ==
    /\ pc = "up_assert"
    /\ debug
    /\ Raise("AssertionError")
    /\ UNCHANGED <<entry, envVars, upVars, argVars, smVars, obs, bad_answers>>

\* up.py:195: assert False, compiled away (python -O): on to the RDS loop
UpAssertSkipped ==
    /\ pc = "up_assert"
    /\ ~debug
    /\ phase' = "rds" /\ idx' = 1
    /\ pc' = "up_provision"
    /\ UNCHANGED <<entry, envVars, confVars, depVars, up_make_operational, gateVars,
                   ran, argVars, smVars, obs, bad_answers, endVars>>

\* the list of the running provisioning loop (up.py:200, 208)
Provisioned == IF phase = "rds" THEN rds_deployers ELSE ec2_deployers

NeedsSeedVerificationWhenPresent(d) == seed_verification[d] /\ nodes[d].exists

\* up.py:201, 209: deployer.seed_verification and deployer.get_node() is None
NeedsSeedVerification(d) == seed_verification[d] /\ ~nodes[d].exists

\* deployer.ensure_node_created(): the node exists afterwards; a new node's
\* state is whatever the provisioner leaves
EnsureNodeCreated(d) ==
    /\ created' = created \cup {d}
    /\ missing' = IF nodes[d].exists THEN missing ELSE missing \cup {d}
    /\ IF nodes[d].exists
       THEN nodes' = nodes
       ELSE \E new \in ExistingNodes : nodes' = [nodes EXCEPT ![d] = new]

\* up.py:200-204, 208-212: no seed verification needed: create the node
UpEnsure ==
    /\ pc = "up_provision"
    /\ idx <= Len(Provisioned)
    /\ ~NeedsSeedVerification(Provisioned[idx])
    /\ EnsureNodeCreated(Provisioned[idx])
    /\ idx' = idx + 1
    /\ UNCHANGED <<pc, entry, interactive, confVars, depVars, phase,
                   up_make_operational, confirmed, seed_prompts, ran, argVars,
                   smVars, obs, bad_answers, endVars>>

\* up.py:201-202, 209-210, 429-434: the seed gate is entered
UpSeedGate ==
    /\ pc = "up_provision"
    /\ idx <= Len(Provisioned)
    /\ NeedsSeedVerification(Provisioned[idx])
    /\ user_opt' = "None"
    /\ pc' = "up_seed_prompt"
    /\ UNCHANGED <<entry, envVars, upVars, argVars, make_operational, count,
                   continue_anyway, pending, obs, bad_answers, endVars>>

\* up.py:430: opts = ['Yes', 'No']
seed_opts == {"Yes", "No"}

SeedAnswers == seed_opts \cup {"yes"}

SeedGateOutcomeLenient(answer) == IF answer \notin seed_opts THEN "again" ELSE "pass"

\* up.py:435-447: what _prompt_for_seed_verification does with an answer: it
\* prompts again while the answer is not in opts (435), calls exit(1) when the
\* answer is not 'Yes' (442-447), and returns otherwise
SeedGateOutcome(answer) ==
    IF answer \notin seed_opts THEN "again"
    ELSE IF answer # "Yes" THEN "exit"
    ELSE "pass"

\* up.py:435-441: an answer outside opts: the prompt is shown again
UpSeedUnrecognised ==
    /\ pc = "up_seed_prompt"
    /\ bad_answers < MaxBadAnswers
    /\ \E answer \in SeedAnswers :
          /\ SeedGateOutcome(answer) = "again"
          /\ user_opt' = answer
    /\ seed_prompts' = seed_prompts + 1
    /\ bad_answers' = bad_answers + 1
    /\ UNCHANGED <<pc, entry, envVars, confVars, depVars, loopVars, missing,
                   confirmed, created, ran, argVars, make_operational, count,
                   continue_anyway, pending, obs, endVars>>

\* up.py:435-442, 204, 212: 'Yes': the gate returns and the node is created
UpSeedYes ==
    /\ pc = "up_seed_prompt"
    /\ \E answer \in SeedAnswers :
          /\ SeedGateOutcome(answer) = "pass"
          /\ user_opt' = answer
          /\ confirmed' = IF answer = "Yes"
                          THEN confirmed \cup {Provisioned[idx]}
                          ELSE confirmed
    /\ seed_prompts' = seed_prompts + 1
    /\ EnsureNodeCreated(Provisioned[idx])
    /\ idx' = idx + 1
    /\ pc' = "up_provision"
    /\ UNCHANGED <<entry, interactive, confVars, depVars, phase, up_make_operational,
                   ran, argVars, make_operational, count, continue_anyway, pending,
                   obs, bad_answers, endVars>>

\* up.py:435-447: 'No': exit(1)
UpSeedNo ==
    /\ pc = "up_seed_prompt"
    /\ \E answer \in SeedAnswers :
          /\ SeedGateOutcome(answer) = "exit"
          /\ user_opt' = answer
    /\ seed_prompts' = seed_prompts + 1
    /\ Exit("seed_refused")
    /\ UNCHANGED <<entry, envVars, confVars, depVars, loopVars, missing, confirmed,
                   created, ran, argVars, make_operational, count, continue_anyway,
                   pending, obs, bad_answers>>

\* up.py:200, 206-208: the RDS loop is over: on to the EC2 loop
UpProvisionRdsDone ==
    /\ pc = "up_provision" /\ phase = "rds"
    /\ idx > Len(Provisioned)
    /\ phase' = "ec2" /\ idx' = 1
    /\ UNCHANGED <<pc, entry, envVars, confVars, depVars, up_make_operational,
                   gateVars, ran, argVars, smVars, obs, bad_answers, endVars>>

\* up.py:208, 214-217: the EC2 loop is over: configure the RDS nodes
UpProvisionEc2Done ==
    /\ pc = "up_provision" /\ phase = "ec2"
    /\ idx > Len(Provisioned)
    /\ phase' = "none" /\ idx' = 1
    /\ pc' = "up_run_rds"
    /\ UNCHANGED <<entry, envVars, confVars, depVars, up_make_operational,
                   gateVars, ran, argVars, smVars, obs, bad_answers, endVars>>

\* up.py:217-218: deployer.run() on an RDS deployer returns
UpRunRds ==
    /\ pc = "up_run_rds"
    /\ idx <= Len(rds_deployers)
    /\ ran' = ran \cup {rds_deployers[idx]}
    /\ idx' = idx + 1
    /\ UNCHANGED <<pc, entry, envVars, confVars, depVars, phase, up_make_operational,
                   gateVars, argVars, smVars, obs, bad_answers, endVars>>

\* up.py:217-218: deployer.run() on an RDS deployer raises
UpRunRdsRaises ==
    /\ pc = "up_run_rds"
    /\ idx <= Len(rds_deployers)
    /\ ran' = ran \cup {rds_deployers[idx]}
    /\ Raise("run")
    /\ UNCHANGED <<entry, envVars, confVars, depVars, loopVars, gateVars, argVars,
                   smVars, obs, bad_answers>>

\* up.py:217, 220-221: ec2_deployers = _order_ec2_deployers_by_priority(ec2_deployers)
UpOrder ==
    /\ pc = "up_run_rds"
    /\ idx > Len(rds_deployers)
    /\ ordered' = order_ec2_deployers_by_priority(ec2_deployers, nodes)
    /\ ec2_deployers' = ordered'
    /\ idx' = 1
    /\ pc' = "up_deploy"
    /\ UNCHANGED <<entry, envVars, confVars, seed_verification, rds_deployers, phase,
                   up_make_operational, gateVars, ran, argVars, smVars, obs,
                   bad_answers, endVars>>

\* up.py:225-235: the call's arguments are evaluated, make_operational among
\* them, which is unbound unless generation == ACTIVE
UpDeployUnbound ==
    /\ pc = "up_deploy"
    /\ idx <= Len(ec2_deployers)
    /\ up_make_operational = "unbound"
    /\ Raise("UnboundLocalError")
    /\ UNCHANGED <<entry, envVars, upVars, argVars, smVars, obs, bad_answers>>

\* up.py:225-235: seamless_modification(node, deployer.deployment,
\* force_seamless=env._active_gen, make_operational_if_not_already=make_operational)
\* with env._active_gen = True (up.py:61)
UpDeploy ==
    /\ pc = "up_deploy"
    /\ idx <= Len(ec2_deployers)
    /\ up_make_operational = "True"
    /\ node' = ec2_deployers[idx]
    /\ force_seamless' = TRUE
    /\ make_operational_if_not_already' = TRUE
    /\ make_operational' = FALSE /\ count' = 0 /\ user_opt' = "None"
    /\ continue_anyway' = "None" /\ pending' = FALSE
    /\ obs' = ObsAtEntry(nodes[ec2_deployers[idx]].is_operational)
    /\ via' = "none"
    /\ pc' = "sm_enter"
    /\ UNCHANGED <<entry, envVars, upVars, bad_answers, result>>

\* up.py:243-247, 225: the with statement completed and its generator, with
\* its locals, is gone: next EC2 deployer
UpNextDeployer ==
    /\ pc = "sm_returned" /\ entry = "up"
    /\ idx' = idx + 1
    /\ node' = None
    /\ make_operational' = FALSE /\ count' = 0 /\ user_opt' = "None"
    /\ continue_anyway' = "None" /\ pending' = FALSE
    /\ obs' = ObsAtEntry(FALSE)
    /\ via' = "none"
    /\ pc' = "up_deploy"
    /\ UNCHANGED <<entry, envVars, confVars, depVars, phase, up_make_operational,
                   gateVars, ran, force_seamless, make_operational_if_not_already,
                   bad_answers, result>>

\* up.py:225, 249-258: every EC2 deployer is done: announce and return
UpDone ==
    /\ pc = "up_deploy"
    /\ idx > Len(ec2_deployers)
    /\ pc' = "up_done" /\ result' = "returned"
    /\ UNCHANGED <<entry, envVars, upVars, argVars, smVars, obs, bad_answers, via>>

NextUp ==
    \/ UpStart \/ UpStateInvalid \/ UpBuild \/ UpAssertFails \/ UpAssertSkipped
    \/ UpEnsure \/ UpSeedGate \/ UpSeedUnrecognised \/ UpSeedYes \/ UpSeedNo
    \/ UpProvisionRdsDone \/ UpProvisionEc2Done
    \/ UpRunRds \/ UpRunRdsRaises \/ UpOrder
    \/ UpDeployUnbound \/ UpDeploy \/ UpNextDeployer \/ UpDone

\* the up action; it always calls seamless_modification with a node, with
\* force_seamless and with make_operational_if_not_already true
Next == NextUp \/ NextSeamlessNode

Spec == InitUp /\ [][Next]_vars

\* ================================================== repair (repair.py:2-30)
\* values of the argument force; repair.py:4 gives it the default 'n'
ForceArguments == {"y", "n", "yes"}

ForceFlagAnyButN(force) == force # "n"

\* repair.py:12: force = force == 'y'
ForceFlag(force) == force = "y"

\* the repair action with every argument and environment
InitRepair ==
    /\ pc = "repair_start" /\ entry = "repair"
    /\ debug \in BOOLEAN
    /\ interactive \in BOOLEAN
    /\ nodes = <<>>
    /\ \E force \in ForceArguments, ready \in BOOLEAN, active \in BOOLEAN :
          rep = RepAtStart(force, ready, active)
    /\ generation = "active" /\ conf_ec2 = <<>> /\ conf_rds = <<>>
    /\ seed_verification = <<>> /\ rds_deployers = <<>>
    /\ ec2_deployers = <<>> /\ ordered = <<>>
    /\ phase = "none" /\ idx = 0 /\ up_make_operational = "unbound"
    /\ missing = {} /\ confirmed = {} /\ created = {} /\ ran = {} /\ seed_prompts = 0
    /\ bad_answers = 0
    /\ result = "running" /\ via = "none"
    /\ FrameUnused

\* repair.py:8-10: fabric's require aborts the run when env lacks a key
RepairRequireFails ==
    /\ pc = "repair_start"
    /\ ~rep.env_ready
    /\ Exit("require")
    /\ UNCHANGED <<entry, envVars, upVars, argVars, smVars, obs, bad_answers>>

\* repair.py:14: assert env._active_gen, executed and failing
RepairAssertFails ==
    /\ pc = "repair_start"
    /\ rep.env_ready
    /\ debug /\ ~rep.active_gen
    /\ Raise("AssertionError")
    /\ UNCHANGED <<entry, envVars, upVars, argVars, smVars, obs, bad_answers>>

\* repair.py:8-20: the keys are there, the assert passes or is compiled away,
\* the Deployment is built
RepairStart ==
    /\ pc = "repair_start"
    /\ rep.env_ready
    /\ ~debug \/ rep.active_gen
    /\ pc' = "repair_verify"
    /\ UNCHANGED <<entry, envVars, upVars, argVars, smVars, obs, bad_answers, endVars>>

\* repair.py:21: deployment.verify_deployment_state() raises
RepairVerifyFails ==
    /\ pc = "repair_verify"
    /\ Raise("verify_deployment_state")
    /\ UNCHANGED <<entry, envVars, upVars, argVars, smVars, obs, bad_answers>>

\* repair.py:21: deployment.verify_deployment_state() returns
RepairVerified ==
    /\ pc = "repair_verify"
    /\ rep' = [rep EXCEPT !.verified = TRUE]
    /\ pc' = "repair_call"
    /\ UNCHANGED <<entry, envVars, generation, debug, conf_ec2, conf_rds, depVars,
                   loopVars, gateVars, ran, argVars, smVars, obs, bad_answers,
                   endVars>>

\* repair.py:23-24: activated_nodes = deployment.repair_active_generation(
\* force_operational=force); it activates some nodes and leaves the active
\* generation fully operational or not
RepairCall ==
    /\ pc = "repair_call"
    /\ \E k \in 0..MaxActivated, full \in BOOLEAN :
          rep' = [rep EXCEPT !.repair_calls = @ + 1,
                             !.force_operational = IF ForceFlag(rep.force)
                                                   THEN "True" ELSE "False",
                             !.activated = Iota(k),
                             !.fully_operational = full]
    /\ pc' = "repair_report"
    /\ UNCHANGED <<entry, envVars, generation, debug, conf_ec2, conf_rds, depVars,
                   loopVars, gateVars, ran, argVars, smVars, obs, bad_answers,
                   endVars>>

ReportMoreThanOne(activated_nodes) ==
    IF Len(activated_nodes) > 1
    THEN [msg |-> "Succesfully made %s node(s) operational", nodes |-> Len(activated_nodes)]
    ELSE [msg |-> "No nodes modified", nodes |-> 0]

\* repair.py:26-30: what is logged for the activated nodes
Report(activated_nodes) ==
    IF Len(activated_nodes) # 0
    THEN [msg |-> "Succesfully made %s node(s) operational", nodes |-> Len(activated_nodes)]
    ELSE [msg |-> "No nodes modified", nodes |-> 0]

\* repair.py:26-30: log the outcome and return
RepairReport ==
    /\ pc = "repair_report"
    /\ rep' = [rep EXCEPT !.report = Report(rep.activated)]
    /\ pc' = "repair_done" /\ result' = "returned"
    /\ UNCHANGED <<entry, envVars, generation, debug, conf_ec2, conf_rds, depVars,
                   loopVars, gateVars, ran, argVars, smVars, obs, bad_answers, via>>

NextRepair ==
    \/ RepairRequireFails \/ RepairAssertFails \/ RepairStart
    \/ RepairVerifyFails \/ RepairVerified \/ RepairCall \/ RepairReport

SpecRepair == InitRepair /\ [][NextRepair]_vars

\* ------------------------------------------- claims on seamless_modification
\* the call, or the process in it, has ended
Ended == pc \in {"sm_returned", "exited", "raised"}

\* C4: with a node, force_seamless and redundancy not met: a non-interactive run
\* exits with status 1; an interactive run exits with status 1 unless the answer
\* to the override prompt is 'Y'; and whenever the run aborts for redundancy,
\* make_temporarily_inoperative was not called and control was not yielded.
C4_RedundancyAbort ==
    (node # None /\ force_seamless /\ obs.redundancy = "unmet") =>
        /\ ~interactive => (pc = "exited" /\ result = "exit1" /\ via = "redundancy")
        /\ (interactive /\ pc # "sm_red_prompt" /\ continue_anyway # "Y")
              => (pc = "exited" /\ result = "exit1" /\ via = "redundancy")
        /\ via = "redundancy" => (obs.inop_calls = 0 /\ ~obs.yielded)
        /\ (obs.yielded \/ obs.inop_calls > 0) => (interactive /\ continue_anyway = "Y")

\* an operational node whose rotation the operator refuses at the prompt
C4_Witness ==
    /\ obs.was_operational /\ force_seamless
    /\ obs.redundancy = "unmet"
    /\ continue_anyway = "N"
    /\ pc = "exited"

\* C5: for a node that was operational at entry (and was rotated out), a call
\* that returns leaves the node operational or the operator chose Ignore, and
\* the only other way the call ends is exit(1) on the operator's Fail.
C5_OperationalIgnoredOrFailed ==
    (obs.was_operational /\ obs.inop_calls > 0 /\ Ended) =>
        \/ pc = "sm_returned" /\ (nodes[node].is_operational \/ user_opt = "I")
        \/ pc = "exited" /\ user_opt = "F"

\* C6: a node rotated out by seamless_modification has make_operational
\* attempted on every way the mutation step ends, a raising mutation included.
C6_RestoreOnEveryExit ==
    (obs.inop_calls > 0 /\ Ended) => obs.make_op_calls >= 1

\* C7: in the single-node loop the first Ignore/Retry/Fail prompt is shown after
\* exactly 11 make_operational calls; Ignore then returns without an exception
\* and with the node not operational; Fail exits with status 1.
C7_FirstPromptAfterEleven ==
    node # None =>
        /\ (pc = "sm_prompt" /\ obs.esc_prompts = 0) => obs.make_op_calls = 11
        /\ obs.esc_prompts > 0 => obs.make_op_calls >= 11
        /\ obs.failed_attempts >= 11 => (pc = "sm_prompt" \/ obs.esc_prompts > 0)
        /\ user_opt = "I" =>
              (pc = "sm_returned" /\ result = "running" /\ ~nodes[node].is_operational)
        /\ user_opt = "F" => (pc = "exited" /\ result = "exit1")

\* the operator answers Ignore at the first prompt, after eleven failed attempts
C7_Witness ==
    /\ node # None
    /\ pc = "sm_returned" /\ via = "ignore"
    /\ obs.esc_prompts = 1
    /\ obs.make_op_calls = 11 /\ obs.failed_attempts = 11

\* C8: when the node is operational after N < 10 failed attempts, the loop
\* returns after N + 1 make_operational calls and no prompt was shown.
C8_AutomaticSuccess ==
    (node # None /\ pc = "sm_returned" /\ via = "operational" /\ obs.failed_attempts < 10) =>
        /\ obs.make_op_calls = obs.failed_attempts + 1
        /\ obs.esc_prompts = 0

\* nine failed attempts, operational on the tenth
C8_Witness ==
    /\ node # None
    /\ pc = "sm_returned" /\ via = "operational"
    /\ obs.failed_attempts = 9 /\ obs.make_op_calls = 10

\* C9: a non-interactive run never shows a prompt (redundancy override, seed
\* verification, Ignore/Retry/Fail).
C9_NoPromptWhenUnattended ==
    ~interactive =>
        /\ pc \notin {"sm_red_prompt", "sm_prompt", "up_seed_prompt"}
        /\ obs.red_prompts = 0 /\ obs.esc_prompts = 0 /\ seed_prompts = 0

\* ------------------------------------------------------ claims on the seed gate
\* C10 as stated: no deployer with seed_verification has ensure_node_created or
\* run invoked on it before its seed prompt was answered 'Yes', whether or not
\* its node exists.
C10_NoMutationUnconfirmed ==
    \A d \in created \cup ran : seed_verification[d] => d \in confirmed

\* C10 amended: no deployer with seed_verification whose node does not exist
\* when the provisioning loop reaches it has ensure_node_created or run invoked
\* on it before its seed prompt was answered 'Yes'.
C10_NoCreationUnconfirmed ==
    \A d \in DOMAIN seed_verification :
        (seed_verification[d] /\ (d \in created \cup ran) /\ (d \in missing \/ ~nodes[d].exists))
            => d \in confirmed

\* a seed-verified deployer without a node that was confirmed, created and run
C10_Witness ==
    \E d \in DOMAIN seed_verification :
        /\ seed_verification[d]
        /\ d \in missing /\ d \in confirmed /\ d \in created /\ d \in ran

\* an answer other than 'Yes' was given at the seed gate of a provisioning loop
SeedAnsweredOtherThanYes ==
    /\ entry = "up" /\ phase \in {"rds", "ec2"}
    /\ user_opt \notin {"None", "Yes"}

\* C11 as stated: any answer other than 'Yes' at the seed gate ends the process
\* with exit(1) before ensure_node_created is invoked for the deployer.
C11_AnyOtherAnswerFatal ==
    SeedAnsweredOtherThanYes =>
        /\ pc = "exited" /\ result = "exit1"
        /\ Provisioned[idx] \notin created

\* C11 amended: the answer 'No' ends the process with exit(1) before
\* ensure_node_created is invoked for the deployer; any other answer than 'Yes'
\* and 'No' leaves the run at the seed prompt, the deployer still not created.
C11_NoIsFatal ==
    SeedAnsweredOtherThanYes =>
        /\ IF user_opt = "No"
           THEN pc = "exited" /\ result = "exit1" /\ via = "seed_refused"
           ELSE pc = "up_seed_prompt" /\ result = "running"
        /\ Provisioned[idx] \notin created
        /\ ~nodes[Provisioned[idx]].exists

\* the operator answers 'No' after an unrecognised answer
C11_Witness ==
    /\ entry = "up" /\ via = "seed_refused"
    /\ user_opt = "No"
    /\ seed_prompts = 2
    /\ seed_verification[Provisioned[idx]]
    /\ Provisioned[idx] \notin created


C13_ReportMatchesActivated ==
    /\ pc = "repair_done" =>
          /\ result = "returned"
          /\ rep.report.msg = "No nodes modified" <=> rep.activated = <<>>
          /\ rep.activated # <<>> =>
                /\ rep.report.msg = "Succesfully made %s node(s) operational"
                /\ rep.report.nodes = Len(rep.activated)
    /\ via = "verify_deployment_state" =>
          /\ result = "raised" /\ rep.repair_calls = 0 /\ ~rep.verified
    /\ rep.repair_calls > 0 => rep.verified

C13_Witness ==
    /\ pc = "repair_done" /\ result = "returned"
    /\ Len(rep.activated) = 1
    /\ rep.report.nodes = 1


\* ------------------------------------------- claims on the convergence loop
\* C14: in generation mode every iteration calls repair_active_generation and
\* checks active_is_fully_operational; when the check fails the operator is
\* prompted, so a call that has repaired ends only with the generation fully
\* operational, on the operator's Ignore, or by exit(1) on the operator's Fail,
\* and a check that failed has been followed by a prompt.
C14_GenerationEscalates ==
    (node = None /\ obs.repair_calls > 0) =>
        /\ Ended =>
              \/ pc = "sm_returned" /\ via = "fully_operational" /\ obs.esc_prompts = 0
              \/ pc = "sm_returned" /\ via = "ignore" /\ user_opt = "I"
              \/ pc = "exited" /\ via = "fail" /\ user_opt = "F"
        /\ (Ended /\ via # "fully_operational") => obs.esc_prompts >= 1

\* answered Ignore/Retry/Fail prompts of the single-node loop: the prompts shown
\* less those shown again after an answer outside opts
AnsweredPrompts == obs.esc_prompts - bad_answers

\* C15: in the single-node loop a Retry does not reset the automatic-attempt
\* counter: once a prompt has been shown count stays at auto_retries, each Retry
\* is followed by exactly one more make_operational call, and every failed
\* attempt from the eleventh on has its own prompt.
C15_RetryKeepsCounter ==
    node # None =>
        /\ count <= auto_retries
        /\ (obs.esc_prompts > 0 \/ pc = "sm_prompt") =>
              /\ count = auto_retries
              /\ obs.make_op_calls = auto_retries + 1 + obs.manual_retries
                                     - (IF pc = "sm_make_op" THEN 1 ELSE 0)
              /\ AnsweredPrompts = obs.failed_attempts - auto_retries
                                   - (IF pc = "sm_prompt" THEN 1 ELSE 0)
        /\ (obs.manual_retries > 0 /\ pc = "sm_check2" /\ ~nodes[node].is_operational) =>
              ~AutomaticRetryLeft(count)

\* the operator answered Retry, the twelfth attempt failed too, the prompt is up
\* again
C15_Witness ==
    /\ node # None
    /\ pc = "sm_prompt" /\ user_opt = "None"
    /\ obs.manual_retries = 1
    /\ obs.make_op_calls = auto_retries + 2
    /\ obs.failed_attempts = auto_retries + 2

\* C16: the single-node loop ends only with the node operational, on Ignore, or
\* by exit(1) on Fail; an exception of make_operational is swallowed and the
\* attempt goes on to the is_operational checks; an answer outside opts only
\* shows the prompt again.
C16_ThreeWaysOut ==
    (node # None /\ obs.make_op_calls > 0) =>
        /\ Ended =>
              \/ pc = "sm_returned" /\ via = "operational" /\ nodes[node].is_operational
              \/ pc = "sm_returned" /\ via = "ignore" /\ user_opt = "I"
              \/ pc = "exited" /\ via = "fail" /\ user_opt = "F" /\ result = "exit1"
        /\ result # "raised"
        /\ (obs.last_raised /\ ~Ended) =>
              pc \in {"sm_check1", "sm_check2", "sm_prompt", "sm_make_op"}
        /\ user_opt \notin (opts \cup {"None"}) =>
              (pc = "sm_prompt" /\ result = "running")

\* the eleventh attempt raised, the operator mistyped once, then chose Ignore
C16_Witness ==
    /\ node # None
    /\ obs.last_raised /\ obs.make_op_calls = auto_retries + 1
    /\ bad_answers = 1
    /\ pc = "sm_returned" /\ via = "ignore"


\* the convergence loop's steps for a known node, and for the generation
NodeLoop == {"sm_make_op", "sm_check1", "sm_check2", "sm_prompt"}

GenerationLoop == {"gen_repair", "gen_prompt"}

\* the restoring seamless_modification was asked for or owes the node
RestoreDue == obs.was_operational \/ make_operational_if_not_already

\* C17: after a mutation that returns, the convergence loop runs exactly when the
\* node was operational at entry or make_operational_if_not_already is true: for
\* a known node by make_operational calls, for no node by
\* repair_active_generation calls; otherwise nothing is called and no prompt is
\* shown after the mutation.
C17_LoopIffRestoreDue ==
    /\ pc \in NodeLoop => (RestoreDue /\ node # None)
    /\ pc \in GenerationLoop => (RestoreDue /\ node = None)
    /\ ~RestoreDue =>
          /\ obs.make_op_calls = 0 /\ obs.repair_calls = 0 /\ obs.esc_prompts = 0
          /\ (Ended /\ obs.yielded /\ via # "mutation") =>
                (pc = "sm_returned" /\ via = "no_restore")
    /\ (RestoreDue /\ Ended /\ obs.yielded /\ via # "mutation") =>
          IF node # None
          THEN obs.make_op_calls >= 1 /\ obs.repair_calls = 0
          ELSE obs.repair_calls >= 1 /\ obs.make_op_calls = 0

\* a node operational at entry is restored though the caller did not ask for it
C17_Witness ==
    /\ obs.was_operational /\ ~make_operational_if_not_already
    /\ pc = "sm_returned" /\ via = "operational"
    /\ obs.make_op_calls = 1

C20_CheckAndRotateIndependent ==
    /\ ~force_seamless =>
          /\ obs.redundancy = "unqueried" /\ obs.red_prompts = 0
          /\ pc # "sm_red_prompt" /\ via # "redundancy"
          /\ (obs.was_operational /\ obs.yielded) => obs.inop_calls = 1
    /\ (force_seamless /\ node # None /\ pc # "sm_enter") =>
          obs.redundancy # "unqueried"
    /\ node = None => obs.redundancy = "unqueried"

\* a node that was out of service already, short of redundancy, in an unattended
\* run: the call aborts
C20_Witness ==
    /\ force_seamless /\ node # None /\ ~obs.was_operational
    /\ obs.redundancy = "unmet"
    /\ pc = "exited" /\ via = "redundancy"
    /\ obs.inop_calls = 0


\* ------------------------------------------------ claims on up's assertion
\* up's steps up to the assert of up.py:195
UpPrologue == {"up_start", "up_build", "up_assert"}

\* nothing of up's provisioning and deployment phases has happened
NothingDeployed ==
    /\ created = {} /\ ran = {} /\ seed_prompts = 0 /\ ordered = <<>>
    /\ phase = "none"
    /\ ~obs.yielded /\ obs.inop_calls = 0 /\ obs.make_op_calls = 0
    /\ obs.repair_calls = 0 /\ obs.redundancy = "unqueried"

\* C19: every execution of up that gets to the assert of up.py:195 stops there
\* with an assertion failure (one cut short before it by
\* verify_deployment_state's exception aside), so nothing of the provisioning
\* and deployment phases ever happens: no ensure_node_created, run, scheduler,
\* seed gate or seamless_modification, and no change to a node's operational
\* state.
C19_AlwaysStopsAtAssert ==
    /\ NothingDeployed
    /\ pc \notin UpPrologue =>
          /\ pc = "raised"
          /\ via \in {"AssertionError", "verify_deployment_state"}

====
